---- MODULE Spec2Model ----
(***************************************************************************)
(* A model of src/adk_coder/agent.py: the GeminiClient callback handlers   *)
(* and the CodingAgent workflow (_ensure_gemini_client, _run_async_impl,   *)
(* _format_update), at the granularity of the asyncio event loop: one      *)
(* action is what a task does between two suspension points.               *)
(***************************************************************************)
EXTENDS Integers, Sequences, FiniteSets, TLC

\* ------------------------------------------------------------------ bounds

\* Invocations of _run_async_impl on the one CodingAgent instance.
NumInv == 2
\* Session-update notifications the peer sends in one behaviour.
MaxNotif == 3
\* Lines of output of one build subprocess.
MaxLines == 2
\* Options of one permission request.
MaxOptions == 3
\* Calls of the callback handlers in one behaviour of the client.
MaxCalls == 3

Min(S) == CHOOSE x \in S : \A y \in S : x <= y

Inv == 1..NumInv
\* A connection (with its process, client and queue) is created by an
\* invocation inside _ensure_gemini_client: at most one per invocation.
Conn == 1..NumInv

\* ------------------------------------------------------------------ values

\* Optional[str]: <<>> is None, <<s>> is the string s.
None == <<>>
Some(s) == <<s>>
\* Python truthiness of an Optional[str]: None and "" are false.
Truthy(o) == o # None /\ o[1] # ""

DOCKERFILE_PROMPT == "Create or update apropriate Dockerfile"
DOCUMENTATION_PROMPT == "Update GEMINI.md with informations in this session"

\* The user's request text (ctx.session.events[-1].content.parts[0].text).
UserRequests == {"add a health endpoint"}

\* A session update: cls is the Python class of the update, isText whether
\* update.content is a TextContentBlock; nid numbers the notification in the
\* order the peer sent it and sess is the invocation whose session it is for
\* (both are bookkeeping, no code reads them).
Update(cls, isText, text, title, status) ==
    [cls |-> cls, isText |-> isText, text |-> text, title |-> title, status |-> status]

AllUpdates ==
    { Update("AgentMessageChunk", TRUE, t, "", "") : t \in {"hello", ""} }
    \cup { Update("AgentMessageChunk", FALSE, "", "", "") }
    \cup { Update("AgentThoughtChunk", TRUE, "plan", "", "") }
    \cup { Update("AgentThoughtChunk", FALSE, "", "", "") }
    \cup { Update("ToolCallStart", FALSE, "", "Reading file", "") }
    \cup { Update("ToolCallProgress", FALSE, "", "", s) : s \in {"completed", "in_progress", "failed"} }
    \cup { Update("PlanUpdate", FALSE, "", "", "") }

\* The updates the peer sends in the workflow specification: one that formats
\* to a line and one that formats to nothing.
WorkflowUpdates ==
    { Update("AgentMessageChunk", TRUE, "hello", "", ""),
      Update("ToolCallProgress", FALSE, "", "", "in_progress") }

\* The slip of not testing the status of a tool-call progress.
format_updateMut(update) ==
    IF update.cls = "AgentMessageChunk"
    THEN IF update.isText THEN Some(update.text) ELSE None
    ELSE IF update.cls = "AgentThoughtChunk"
    THEN IF update.isText THEN Some("[Thought] " \o update.text) ELSE None
    ELSE IF update.cls = "ToolCallStart"
    THEN Some("[Tool] " \o update.title)
    ELSE IF update.cls = "ToolCallProgress"
    THEN Some("[Tool] Completed")
    ELSE None

\* CodingAgent._format_update
format_update(update) ==
    IF update.cls = "AgentMessageChunk"
    THEN IF update.isText THEN Some(update.text) ELSE None
    ELSE IF update.cls = "AgentThoughtChunk"
    THEN IF update.isText THEN Some("[Thought] " \o update.text) ELSE None
    ELSE IF update.cls = "ToolCallStart"
    THEN Some("[Tool] " \o update.title)
    ELSE IF update.cls = "ToolCallProgress"
    THEN IF update.status = "completed" THEN Some("[Tool] Completed") ELSE None
    ELSE None


\* ------------------------------------------------------------------ state

VARIABLES
    \* CodingAgent fields
    docker_repo,    \* self.docker_repo
    gemini_proc,    \* self._gemini_proc: 0 is None, else the process's number
    gemini_conn,    \* self._gemini_conn: 0 is None, else the connection's number
    event_queue,    \* self._event_queue: the number of the current asyncio.Queue
    conn,           \* per connection: how far its initialize got, and who made it
    qItems,         \* per queue: asyncio.Queue._queue
    qGetters,       \* per queue: asyncio.Queue._getters (who waits in get())
    \* locals of one invocation of _run_async_impl
    pc,             \* where the generator is suspended
    directory,      \* ctx.session.state.get('directory', '')
    user_request,
    session,        \* the connection the session was created on (0: none yet)
    tasks,          \* prompt_task, dockerfile_task, docs_task
    getter,         \* the task asyncio.create_task(self._event_queue.get())
    mq,             \* the queue whose get() the generator itself is suspended in
    image_tag,
    process,        \* the docker build subprocess
    out,            \* the events yielded so far
    \* bookkeeping
    sent,           \* the notifications the peer has sent, in order
    consumed,       \* per invocation: the notifications handed to _format_update
    promptLog,      \* per invocation: the prompt requests sent, in order
    faulted,        \* per invocation: where an unhandled fault occurred, if any
    \* the peer's callback requests (GeminiClient handlers)
    fs,             \* the file system: path -> content, or NoFile
    fsLog,          \* the file-system operations of the last handler call
    reply,          \* the last handler call and what went back to the peer
    calls

wfVars == <<docker_repo, gemini_proc, gemini_conn, event_queue, conn, qItems, qGetters,
            pc, directory, user_request, session, tasks, getter, mq, image_tag,
            process, out, sent, consumed, promptLog, faulted>>
clVars == <<fs, fsLog, reply, calls>>
vars == <<wfVars, clVars>>

\* Task states: a task is done() once it has a result or an exception or is
\* cancelled.
DoneStates == {"ok", "err", "cancelled"}

\* What the file system holds at a path where there is no file.
NoFile == <<"<no file>">>

NoItem == [nid |-> 0, sess |-> 0, update |-> Update("PlanUpdate", FALSE, "", "", "")]
NoGetter == [state |-> "none", q |-> 0, result |-> NoItem]
NoProcess == [state |-> "none", stdout |-> <<>>, read |-> <<>>, returncode |-> None]

\* Who waits in a queue's get(): i is the getter task of invocation i,
\* NumInv + i the generator of invocation i itself (inside wait_for).
G(i) == i
M(i) == NumInv + i

\* An event: at is the line of the yield it comes from, nid the notification
\* it formats (0: none).
Event(at, text, nid) == [author |-> "coding", at |-> at, text |-> text, nid |-> nid]


\* ------------------------------------------------------------------ asyncio.Queue

\* The part of the state one step of the event loop works on; the operators
\* below map one such record to the next and Commit makes it the next state.
Cur == [pc |-> pc, getter |-> getter, qGetters |-> qGetters, qItems |-> qItems,
        consumed |-> consumed, out |-> out, tasks |-> tasks, promptLog |-> promptLog,
        image_tag |-> image_tag, mq |-> mq]

Commit(B) ==
    /\ pc' = B.pc
    /\ getter' = B.getter
    /\ qGetters' = B.qGetters
    /\ qItems' = B.qItems
    /\ consumed' = B.consumed
    /\ out' = B.out
    /\ tasks' = B.tasks
    /\ promptLog' = B.promptLog
    /\ image_tag' = B.image_tag
    /\ mq' = B.mq

Goto(B, i, p) == [B EXCEPT !.pc[i] = p]

WokenOf(p) == IF p = "dfWait" THEN "dfWoken" ELSE "docWoken"

\* asyncio.Queue._wakeup_next(self._getters): the first waiter's future is
\* resolved; the waiter runs later.
wakeup_next(B, c) ==
    IF B.qGetters[c] = <<>> THEN B
    ELSE LET w == Head(B.qGetters[c])
             B1 == [B EXCEPT !.qGetters[c] = Tail(@)]
         IN  IF w <= NumInv
             THEN [B1 EXCEPT !.getter[w].state = "woken"]
             ELSE [B1 EXCEPT !.pc[w - NumInv] = WokenOf(@)]

\* The same on a LifoQueue: the newest item is the next one out.
put_nowaitMut(B, c, item) == wakeup_next([B EXCEPT !.qItems[c] = <<item>> \o @], c)

\* asyncio.Queue.put on an unbounded queue: put_nowait.
put_nowait(B, c, item) == wakeup_next([B EXCEPT !.qItems[c] = Append(@, item)], c)

\* await self._event_queue.get() on a non-empty queue (it returns without
\* suspending: Queue.get_nowait) by the generator of invocation i, n times in a
\* row; each item goes to _format_update.
Take(B, i, c, n) ==
    [B EXCEPT !.qItems[c] = SubSeq(@, n + 1, Len(@)),
              !.consumed[i] = @ \o [k \in 1..n |-> B.qItems[c][k].nid]]

Emit(B, i, at, text, nid) == [B EXCEPT !.out[i] = Append(@, Event(at, text, nid))]

\* How many items at the head of a queue format to nothing (no yield, so the
\* generator takes them without being suspended).
RECURSIVE SilentPrefix(_)
SilentPrefix(items) ==
    IF items = <<>> \/ Truthy(format_update(Head(items).update)) THEN 0
    ELSE 1 + SilentPrefix(Tail(items))

\* get / _format_update / "if event_text: yield" repeated until the first
\* yield or until the queue is empty.
ProcessQueue(B, i, c, at) ==
    LET items == B.qItems[c]
        k == SilentPrefix(items)
    IN  IF k < Len(items)
        THEN [B |-> Emit(Take(B, i, c, k + 1), i, at,
                         format_update(items[k + 1].update)[1], items[k + 1].nid),
              yielded |-> TRUE]
        ELSE [B |-> Take(B, i, c, k), yielded |-> FALSE]

\* ------------------------------------------------------------------ the workflow

TaskOf(step) ==
    IF step = "s0" THEN "prompt_task"
    ELSE IF step = "df" THEN "dockerfile_task" ELSE "docs_task"

\* asyncio.create_task(self._gemini_conn.prompt(PromptRequest(...)))
SendPrompt(B, i, name, text) ==
    [B EXCEPT !.tasks[i][name] = "pending", !.promptLog[i] = Append(@, text)]

\* await asyncio.wait_for(self._event_queue.get(), timeout=0.1) on an empty
\* queue: the generator waits among the queue's getters.
Register(B, i, step) ==
    [B EXCEPT !.qGetters[event_queue] = Append(@, M(i)),
              !.mq[i] = event_queue,
              !.pc[i] = step \o "Wait"]

\* The slip of not testing the directory when a repo is configured.
ImageTagMut(repo, dir) ==
    IF Truthy(repo) THEN Some(repo[1] \o "/" \o dir)
    ELSE IF dir # "" THEN Some(dir)
    ELSE None

\* Lines 280-286.
ImageTag(repo, dir) ==
    IF Truthy(repo) /\ dir # "" THEN Some(repo[1] \o "/" \o dir)
    ELSE IF dir # "" THEN Some(dir)
    ELSE None

\* finally: if not prompt_task.done(): prompt_task.cancel()
Finally(B, i, p) ==
    [B EXCEPT !.tasks[i].prompt_task = IF @ \in DoneStates THEN @ ELSE "cancelled",
              !.pc[i] = p]

\* Lines 280-292 and, with no tag, the break at 333.
BuildOrDone(B, i) ==
    LET tag == ImageTag(docker_repo, directory[i])
        B1 == [B EXCEPT !.image_tag[i] = tag]
    IN  IF Truthy(tag)
        THEN Goto(Emit(B1, i, 289, "[Docker] Building image: " \o tag[1], 0), i, "buildLaunch")
        ELSE Finally(B1, i, "Done")

\* The slip of building without waiting for the documentation prompt.
AdvanceMut(B, i, step) ==
    IF step = "s0"
    THEN Register(SendPrompt(B, i, "dockerfile_task", DOCKERFILE_PROMPT), i, "df")
    ELSE BuildOrDone(SendPrompt(B, i, "docs_task", DOCUMENTATION_PROMPT), i)

\* What follows a drain loop that found the queue empty: the next prompt and
\* its polling loop, whose first wait_for finds the queue empty; or the tag.
Advance(B, i, step) ==
    IF step = "s0"
    THEN Register(SendPrompt(B, i, "dockerfile_task", DOCKERFILE_PROMPT), i, "df")
    ELSE IF step = "df"
    THEN Register(SendPrompt(B, i, "docs_task", DOCUMENTATION_PROMPT), i, "doc")
    ELSE BuildOrDone(B, i)

\* while not self._event_queue.empty(): ... (lines 203-210, 225-232, 259-266)
DrainYield(step) == IF step = "s0" THEN 207 ELSE IF step = "df" THEN 229 ELSE 263
PollYield(step) == IF step = "df" THEN 239 ELSE 273

\* The slip of advancing without the drain loop.
DrainStepMut(B, i, step) == Advance(B, i, step)

DrainStep(B, i, step) ==
    LET r == ProcessQueue(B, i, event_queue, DrainYield(step))
    IN  IF r.yielded THEN Goto(r.B, i, step \o "Drain") ELSE Advance(r.B, i, step)

\* The slip of testing the user prompt's task in the polling loops.
StepDoneMut(B, i, step) == B.tasks[i].prompt_task \in DoneStates

\* if task.done(): (lines 224, 258)
StepDone(B, i, step) == B.tasks[i][TaskOf(step)] \in DoneStates

\* The top of a polling loop (lines 223-244, 257-278).
PollTop(B, i, step) ==
    IF StepDone(B, i, step) THEN DrainStep(B, i, step)
    ELSE LET r == ProcessQueue(B, i, event_queue, PollYield(step))
         IN  IF r.yielded THEN Goto(r.B, i, step \o "Loop") ELSE Register(r.B, i, step)


\* ------------------------------------------------------------------ _ensure_gemini_client, newSession

Terminal == {"Done", "ErrorTerminal", "Raised"}

\* An exception leaves _run_async_impl before its try block (lines 160-186):
\* the generator raises, nothing is yielded.
Raise(i, what) ==
    /\ pc' = [pc EXCEPT ![i] = "Raised"]
    /\ faulted' = [faulted EXCEPT ![i] = what]

\* Lines 164-176: the working directory, then the newSession request on the
\* connection the agent holds now.
NewSessionCall(i, dirOk) ==
    IF dirOk
    THEN /\ pc' = [pc EXCEPT ![i] = "sessionStarting"]
         /\ session' = [session EXCEPT ![i] = gemini_conn]
         /\ UNCHANGED faulted
    ELSE Raise(i, "makedirs") /\ UNCHANGED session

\* The hosting framework calls _run_async_impl (src/run.py, runner.run_async).
Start(i, dir, req) ==
    /\ pc[i] = "idle"
    /\ pc' = [pc EXCEPT ![i] = "ensure"]
    /\ directory' = [directory EXCEPT ![i] = dir]
    /\ user_request' = [user_request EXCEPT ![i] = req]
    /\ UNCHANGED <<docker_repo, gemini_proc, gemini_conn, event_queue, conn, qItems,
                   qGetters, session, tasks, getter, mq, image_tag, process, out,
                   sent, consumed, promptLog, faulted, clVars>>

\* if self._gemini_proc is None: (line 124)
ProcIsNone == gemini_proc = 0

\* _ensure_gemini_client up to its first await, or through to newSession
\* when the process exists.
EnsureClient(i, dirOk) ==
    /\ pc[i] = "ensure"
    /\ IF ProcIsNone
       THEN /\ pc' = [pc EXCEPT ![i] = "spawning"]
            /\ UNCHANGED <<session, faulted>>
       ELSE NewSessionCall(i, dirOk)
    /\ UNCHANGED <<docker_repo, gemini_proc, gemini_conn, event_queue, conn, qItems,
                   qGetters, directory, user_request, tasks, getter, mq, image_tag,
                   process, out, sent, consumed, promptLog, clVars>>

NumConns == Cardinality({c \in Conn : conn[c].state # "absent"})

\* create_subprocess_exec returned: lines 126-153 up to await initialize.
SpawnDone(i) ==
    /\ pc[i] = "spawning"
    /\ LET c == NumConns + 1
       IN  /\ gemini_proc' = c
           /\ event_queue' = c
           /\ gemini_conn' = c
           /\ conn' = [conn EXCEPT ![c] = [state |-> "initializing", owner |-> i]]
    /\ pc' = [pc EXCEPT ![i] = "initializing"]
    /\ UNCHANGED <<docker_repo, qItems, qGetters, directory, user_request, session,
                   tasks, getter, mq, image_tag, process, out, sent, consumed,
                   promptLog, faulted, clVars>>

\* create_subprocess_exec raised (no gemini executable).
SpawnFail(i) ==
    /\ pc[i] = "spawning"
    /\ Raise(i, "spawn")
    /\ UNCHANGED <<docker_repo, gemini_proc, gemini_conn, event_queue, conn, qItems,
                   qGetters, directory, user_request, session, tasks, getter, mq,
                   image_tag, process, out, sent, consumed, promptLog, clVars>>

OwnConn(i) == CHOOSE c \in Conn : conn[c].owner = i

\* initialize answered: _ensure_gemini_client returns, lines 164-176 follow.
InitializeDone(i, dirOk) ==
    /\ pc[i] = "initializing"
    /\ conn' = [conn EXCEPT ![OwnConn(i)].state = "initialized"]
    /\ NewSessionCall(i, dirOk)
    /\ UNCHANGED <<docker_repo, gemini_proc, gemini_conn, event_queue, qItems,
                   qGetters, directory, user_request, tasks, getter, mq, image_tag,
                   process, out, sent, consumed, promptLog, clVars>>

\* initialize failed (protocol mismatch, transport closed).
InitializeFail(i) ==
    /\ pc[i] = "initializing"
    /\ conn' = [conn EXCEPT ![OwnConn(i)].state = "failed"]
    /\ Raise(i, "initialize")
    /\ UNCHANGED <<docker_repo, gemini_proc, gemini_conn, event_queue, qItems,
                   qGetters, directory, user_request, session, tasks, getter, mq,
                   image_tag, process, out, sent, consumed, promptLog, clVars>>

\* newSession failed.
NewSessionFail(i) ==
    /\ pc[i] = "sessionStarting"
    /\ session' = [session EXCEPT ![i] = 0]
    /\ Raise(i, "newSession")
    /\ UNCHANGED <<docker_repo, gemini_proc, gemini_conn, event_queue, conn, qItems,
                   qGetters, directory, user_request, tasks, getter, mq, image_tag,
                   process, out, sent, consumed, promptLog, clVars>>

\* asyncio.create_task(self._event_queue.get()) and asyncio.wait (192-198).
WaitFirst(B, i) ==
    [B EXCEPT !.getter[i] = [state |-> "new", q |-> event_queue, result |-> NoItem],
              !.pc[i] = "s0Race"]

\* newSession answered: the user prompt goes out in a task, the try block is
\* entered and the first asyncio.wait suspends (lines 174-198).
NewSessionDone(i) ==
    /\ pc[i] = "sessionStarting"
    /\ Commit(WaitFirst(SendPrompt(Cur, i, "prompt_task", user_request[i]), i))
    /\ UNCHANGED <<docker_repo, gemini_proc, gemini_conn, event_queue, conn, directory,
                   user_request, session, process, sent, faulted, clVars>>


\* ------------------------------------------------------------------ the three steps

\* What a step of the generator inside the try block leaves alone, besides
\* what Commit sets.
stepRest == <<docker_repo, gemini_proc, gemini_conn, event_queue, conn, directory,
              user_request, session, process, sent, faulted, clVars>>

\* The task asyncio.create_task(self._event_queue.get()) runs: Queue.get
\* takes the head of the queue, or waits (again) among the getters.  The task
\* outlives the loop that made it: nothing cancels it.
GetterRun(i) ==
    /\ getter[i].state \in {"new", "woken"}
    /\ LET c == getter[i].q
       IN  IF qItems[c] = <<>>
           THEN /\ getter' = [getter EXCEPT ![i].state = "waiting"]
                /\ qGetters' = [qGetters EXCEPT ![c] = Append(@, G(i))]
                /\ UNCHANGED qItems
           ELSE /\ getter' = [getter EXCEPT ![i] = [state |-> "done", q |-> c,
                                                    result |-> Head(qItems[c])]]
                /\ qItems' = [qItems EXCEPT ![c] = Tail(@)]
                /\ UNCHANGED qGetters
    /\ UNCHANGED <<pc, consumed, out, tasks, promptLog, image_tag, mq, stepRest>>

\* if prompt_task in done: (line 201)
PromptInDone(i) == tasks[i].prompt_task \in DoneStates

\* for task in done: if task != prompt_task: (lines 336-344), then the next
\* round of the while loop.
ProcessGetter(B, i) ==
    LET it == B.getter[i].result
        text == format_update(it.update)
        B1 == [B EXCEPT !.consumed[i] = Append(@, it.nid), !.getter[i] = NoGetter]
    IN  IF Truthy(text)
        THEN Goto(Emit(B1, i, 341, text[1], it.nid), i, "s0Loop")
        ELSE WaitFirst(B1, i)

\* asyncio.wait(..., return_when=FIRST_COMPLETED) returns (lines 192-210,
\* 336-344).  The getter task has run at least once by then: it was scheduled
\* before the callbacks that end the wait.
Wait0Return(i) ==
    /\ pc[i] = "s0Race"
    /\ getter[i].state # "new"
    /\ getter[i].state = "done" \/ PromptInDone(i)
    /\ IF PromptInDone(i)
       THEN Commit(DrainStep(Cur, i, "s0"))
       ELSE Commit(ProcessGetter(Cur, i))
    /\ UNCHANGED stepRest

\* The consumer asks for the next event after one yielded at line 341.
S0Loop(i) ==
    /\ pc[i] = "s0Loop"
    /\ Commit(WaitFirst(Cur, i))
    /\ UNCHANGED stepRest

\* The consumer asks for the next event after one yielded inside a drain
\* loop (lines 207, 229, 263).
DrainResume(i, step) ==
    /\ pc[i] = step \o "Drain"
    /\ Commit(DrainStep(Cur, i, step))
    /\ UNCHANGED stepRest

\* The consumer asks for the next event after one yielded inside a polling
\* loop (lines 239, 273).
PollResume(i, step) ==
    /\ pc[i] = step \o "Loop"
    /\ Commit(PollTop(Cur, i, step))
    /\ UNCHANGED stepRest

\* The generator, woken inside Queue.get by a put, runs (lines 236-242).
PollWoken(i, step) ==
    /\ pc[i] = step \o "Woken"
    /\ LET c == mq[i]
       IN  IF qItems[c] = <<>>
           THEN Commit([Cur EXCEPT !.qGetters[c] = Append(@, M(i)),
                                   !.pc[i] = step \o "Wait"])
           ELSE LET it == Head(qItems[c])
                    text == format_update(it.update)
                    B1 == Take(Cur, i, c, 1)
                IN  IF Truthy(text)
                    THEN Commit(Goto(Emit(B1, i, PollYield(step), text[1], it.nid), i, step \o "Loop"))
                    ELSE Commit(PollTop(B1, i, step))
    /\ UNCHANGED stepRest

\* Queue.get is cancelled while the generator waits in it: the waiter leaves
\* the getters; one that was already woken passes the wake-up on.
LeaveGet(B, i, step) ==
    IF B.pc[i] = step \o "Wait"
    THEN [B EXCEPT !.qGetters[mq[i]] = SelectSeq(@, LAMBDA w : w # M(i))]
    ELSE IF B.pc[i] = step \o "Woken" /\ B.qItems[mq[i]] # <<>>
    THEN wakeup_next(B, mq[i])
    ELSE B

\* wait_for's timeout of 0.1 s: except asyncio.TimeoutError: continue
\* (lines 243-244, 277-278).
PollTimeout(i, step) ==
    /\ pc[i] \in {step \o "Wait", step \o "Woken"}
    /\ Commit(PollTop(LeaveGet(Cur, i, step), i, step))
    /\ UNCHANGED stepRest

TryPcs == {"s0Race", "s0Loop", "s0Drain",
           "dfWait", "dfWoken", "dfLoop", "dfDrain",
           "docWait", "docWoken", "docLoop", "docDrain"}

StepOfPc(p) ==
    IF p \in {"dfWait", "dfWoken", "dfLoop", "dfDrain"} THEN "df"
    ELSE IF p \in {"docWait", "docWoken", "docLoop", "docDrain"} THEN "doc"
    ELSE "s0"

\* except Exception as e: yield Event("Error: ..."), then finally (346-354).
ErrorExit(B, i) == Finally(Emit(B, i, 347, "Error: fault", 0), i, "ErrorTerminal")

\* An exception is raised inside the try block, outside the build's own try.
Fault(i) ==
    /\ pc[i] \in TryPcs
    /\ Commit(ErrorExit(LeaveGet(Cur, i, StepOfPc(pc[i])), i))
    /\ faulted' = [faulted EXCEPT ![i] = "workflow"]
    /\ UNCHANGED <<docker_repo, gemini_proc, gemini_conn, event_queue, conn, directory,
                   user_request, session, process, sent, clVars>>


\* ------------------------------------------------------------------ the peer

\* GeminiClient.sessionUpdate: await self.event_queue.put(params.update), on
\* the queue the client was constructed with.
sessionUpdate(B, c, item) == put_nowait(B, c, item)

\* The peer sends a session-update notification for the session of
\* invocation i; the connection's reader hands it to sessionUpdate.
PeerNotify(i, u) ==
    /\ session[i] # 0
    /\ pc[i] # "sessionStarting"
    /\ Len(sent) < MaxNotif
    /\ LET item == [nid |-> Len(sent) + 1, sess |-> i, update |-> u]
       IN  /\ sent' = Append(sent, item)
           /\ Commit(sessionUpdate(Cur, session[i], item))
    /\ UNCHANGED <<docker_repo, gemini_proc, gemini_conn, event_queue, conn, directory,
                   user_request, session, process, faulted, clVars>>

\* The peer answers a prompt request: the turn is finished (ok) or the
\* request is answered with an error (err).
PeerRespond(i, step, res) ==
    /\ tasks[i][TaskOf(step)] = "pending"
    /\ tasks' = [tasks EXCEPT ![i][TaskOf(step)] = res]
    /\ UNCHANGED <<pc, getter, qGetters, qItems, consumed, out, promptLog, image_tag,
                   mq, stepRest>>

\* ------------------------------------------------------------------ the build

BadByte == "<ff>"
Whitespace == {" ", "\n", "\t"}

\* The lines the build prints, without their newline.
LineContents == {<<>>, <<" ">>, <<"a">>, <<"a", " ">>, <<" ", "b">>, <<BadByte>>}
Line(content) == content \o <<"\n">>

\* line.decode('utf-8') raises on a byte that is no UTF-8.
Decodable(line) == \A k \in 1..Len(line) : line[k] # BadByte

\* str.rstrip()
RECURSIVE rstrip(_)
rstrip(chars) ==
    IF chars # <<>> /\ chars[Len(chars)] \in Whitespace
    THEN rstrip(SubSeq(chars, 1, Len(chars) - 1))
    ELSE chars

\* The characters as one string.
RECURSIVE Str(_)
Str(chars) == IF chars = <<>> THEN "" ELSE Head(chars) \o Str(Tail(chars))

RECURSIVE SeqsUpTo(_, _)
SeqsUpTo(S, n) ==
    IF n = 0 THEN {<<>>}
    ELSE LET shorter == SeqsUpTo(S, n - 1)
         IN  shorter \cup {Append(q, x) : q \in shorter, x \in S}

\* What a build may print: up to MaxLines lines.
BuildOutputs == SeqsUpTo({Line(c) : c \in LineContents}, MaxLines)
ExitCodes == {0, 1}

\* The slip of a build without its own try block: the exception reaches
\* the except of line 346.
BuildErrorMut(B, i, e) ==
    Finally(Emit(B, i, 347, "Error: " \o e, 0), i, "ErrorTerminal")

\* except Exception as e: (lines 327-331), then break and finally.
BuildError(B, i, e) ==
    Finally(Emit(B, i, 328, "[Docker] Error building image: " \o e, 0), i, "Done")

\* create_subprocess_exec('docker', 'build', ...) returned (lines 296-301).
BuildLaunch(i, stdout) ==
    /\ pc[i] = "buildLaunch"
    /\ process' = [process EXCEPT ![i] = [state |-> "running", stdout |-> stdout,
                                          read |-> <<>>, returncode |-> None]]
    /\ pc' = [pc EXCEPT ![i] = "buildRead"]
    /\ UNCHANGED <<docker_repo, gemini_proc, gemini_conn, event_queue, conn, qItems,
                   qGetters, directory, user_request, session, tasks, getter, mq,
                   image_tag, out, sent, consumed, promptLog, faulted, clVars>>

\* create_subprocess_exec raised (no docker executable, no such directory).
BuildLaunchFail(i) ==
    /\ pc[i] = "buildLaunch"
    /\ Commit(BuildError(Cur, i, "launch failed"))
    /\ UNCHANGED stepRest

\* line = await process.stdout.readline() and what follows it (304-313).
BuildReadLine(i) ==
    /\ pc[i] = "buildRead"
    /\ LET p == process[i]
       IN  IF p.stdout = <<>>
           THEN /\ pc' = [pc EXCEPT ![i] = "buildWait"]
                /\ UNCHANGED <<process, getter, qGetters, qItems, consumed, out, tasks,
                               promptLog, image_tag, mq>>
           ELSE LET line == Head(p.stdout)
                    output == rstrip(line)
                IN  /\ process' = [process EXCEPT ![i].stdout = Tail(@),
                                                  ![i].read = Append(@, line)]
                    /\ IF ~Decodable(line)
                       THEN Commit(BuildError(Cur, i, "can't decode"))
                       ELSE IF output # <<>>
                       THEN Commit(Emit(Cur, i, 310, "[Docker] " \o Str(output), 0))
                       ELSE Commit(Cur)
    /\ UNCHANGED <<docker_repo, gemini_proc, gemini_conn, event_queue, conn, directory,
                   user_request, session, sent, faulted, clVars>>

\* The slip of reporting success whatever the exit code.
SummaryMut(tag, rc) == "[Docker] Successfully built image: " \o tag

\* if process.returncode == 0: ... else: ... (lines 317-326)
Summary(tag, rc) ==
    IF rc = 0 THEN "[Docker] Successfully built image: " \o tag
    ELSE "[Docker] Build failed with exit code: " \o ToString(rc)
SummaryLine(rc) == IF rc = 0 THEN 318 ELSE 323

\* await process.wait() returned; the summary (lines 315-326).
BuildExit(i, rc) ==
    /\ pc[i] = "buildWait"
    /\ process' = [process EXCEPT ![i].state = "exited", ![i].returncode = Some(rc)]
    /\ Commit(Finally(Emit(Cur, i, SummaryLine(rc), Summary(image_tag[i][1], rc), 0),
                      i, "Done"))
    /\ UNCHANGED <<docker_repo, gemini_proc, gemini_conn, event_queue, conn, directory,
                   user_request, session, sent, faulted, clVars>>

\* ------------------------------------------------------------------ GeminiClient

\* What the body of a handler's try block comes to: a value, or an exception
\* (exc names it), with the file-system operations attempted and the file
\* system they leave.
Returned(value, log, files) == [exc |-> "", value |-> value, log |-> log, fs |-> files]
Raised(exc, log, files) == [exc |-> exc, value |-> <<>>, log |-> log, fs |-> files]

\* A handler that catches OSError only: a RequestError reaches the peer.
CatchMut(body, default) ==
    [result |-> IF body.exc = "" THEN body.value ELSE default,
     error |-> IF body.exc \in {"invalid_params", "file does not exist"}
               THEN "invalid_params" ELSE "",
     caught |-> body.exc,
     log |-> body.log,
     fs |-> body.fs]

\* except Exception: return <default> (lines 59-61, 67-69, 84-86, 107-109).
\* What goes back to the peer: a result, never a protocol error.
Catch(body, default) ==
    [result |-> IF body.exc = "" THEN body.value ELSE default,
     error |-> "",
     caught |-> body.exc,
     log |-> body.log,
     fs |-> body.fs]

AllowedOutcome(optionId) == [outcome |-> "selected", optionId |-> optionId]
DeniedOutcome == [outcome |-> "cancelled", optionId |-> ""]

AllowKinds == {"allow_once", "allow_always"}
\* An option whose kind cannot be read (the except branch of requestPermission).
BadKind == "<raises>"
OptionKinds == {"allow_once", "allow_always", "reject_once", BadKind}

\* The slip of accepting allow_once alone.
RECURSIVE ScanOptionsMut(_, _)
ScanOptionsMut(options, k) ==
    IF k > Len(options) THEN Returned(DeniedOutcome, <<>>, fs)
    ELSE IF options[k].kind = BadKind THEN Raised("AttributeError", <<>>, fs)
    ELSE IF options[k].kind = "allow_once"
    THEN Returned(AllowedOutcome(options[k].optionId), <<>>, fs)
    ELSE ScanOptionsMut(options, k + 1)

\* for option in params.options: if option.kind in {...}: return ... (53-58),
\* from the k-th option on.
RECURSIVE ScanOptions(_, _)
ScanOptions(options, k) ==
    IF k > Len(options) THEN Returned(DeniedOutcome, <<>>, fs)
    ELSE IF options[k].kind = BadKind THEN Raised("AttributeError", <<>>, fs)
    ELSE IF options[k].kind \in AllowKinds
    THEN Returned(AllowedOutcome(options[k].optionId), <<>>, fs)
    ELSE ScanOptions(options, k + 1)

\* GeminiClient.requestPermission
requestPermission(options) == Catch(ScanOptions(options, 1), DeniedOutcome)

\* A path: its parts, the first one "/" when the path is absolute.
Paths == {<<"/", "w", "f">>, <<"/", "g">>, <<"w", "f">>, <<"g">>}
\* Path.is_absolute()
is_absolute(path) == path # <<>> /\ path[1] = "/"

\* Text: its characters.
Contents == {<<>>, <<"a">>, <<"a", "\n", "b">>, <<"a", "\r", "\n">>}

\* Path.read_text() opens the file in text mode with universal newlines.
RECURSIVE universal_newlines(_)
universal_newlines(chars) ==
    IF chars = <<>> THEN <<>>
    ELSE IF Head(chars) = "\r"
    THEN IF Len(chars) > 1 /\ chars[2] = "\n"
         THEN <<"\n">> \o universal_newlines(SubSeq(chars, 3, Len(chars)))
         ELSE <<"\n">> \o universal_newlines(Tail(chars))
    ELSE <<Head(chars)>> \o universal_newlines(Tail(chars))

\* The try block of writeTextFile (lines 75-83); fault names the file-system
\* operation that fails, if one does.
writeBody(path, content, fault) ==
    IF ~is_absolute(path) THEN Raised("invalid_params", <<>>, fs)
    ELSE IF fault = "mkdir" THEN Raised("OSError", <<"mkdir">>, fs)
    ELSE IF fault = "write" THEN Raised("OSError", <<"mkdir", "write">>, fs)
    ELSE Returned("WriteTextFileResponse", <<"mkdir", "write">>,
                  [fs EXCEPT ![path] = content])

\* GeminiClient.writeTextFile
writeTextFile(path, content, fault) ==
    Catch(writeBody(path, content, fault), "WriteTextFileResponse")

\* The try block of readTextFile (lines 92-106).
readBody(path, fault) ==
    IF ~is_absolute(path) THEN Raised("invalid_params", <<>>, fs)
    ELSE IF fs[path] = NoFile THEN Raised("file does not exist", <<"exists">>, fs)
    ELSE IF fault = "read" THEN Raised("OSError", <<"exists", "read">>, fs)
    ELSE Returned(universal_newlines(fs[path]), <<"exists", "read">>, fs)

\* GeminiClient.readTextFile
readTextFile(path, fault) == Catch(readBody(path, fault), <<>>)

\* The peer's request, answered by a handler: what the connection sends back.
Answer(handler, params, r) ==
    /\ calls < MaxCalls
    /\ calls' = calls + 1
    /\ reply' = [handler |-> handler, params |-> params, result |-> r.result,
                 error |-> r.error, caught |-> r.caught]
    /\ fsLog' = r.log
    /\ fs' = r.fs

RequestPermissionCall(options) ==
    /\ Answer("requestPermission", [options |-> options], requestPermission(options))
    /\ UNCHANGED wfVars

WriteTextFileCall(path, content, fault) ==
    /\ Answer("writeTextFile", [path |-> path, content |-> content, fault |-> fault],
              writeTextFile(path, content, fault))
    /\ UNCHANGED wfVars

ReadTextFileCall(path, fault) ==
    /\ Answer("readTextFile", [path |-> path, fault |-> fault], readTextFile(path, fault))
    /\ UNCHANGED wfVars

\* The session-update notification, handled by the client of connection c;
\* with fault, params.update or the put raises and the handler passes.
SessionUpdateCall(c, u, fault) ==
    /\ Answer("sessionUpdate", [update |-> u, fault |-> fault],
              Catch(IF fault THEN Raised("AttributeError", <<>>, fs)
                             ELSE Returned("None", <<>>, fs), "None"))
    /\ IF fault
       THEN UNCHANGED wfVars
       ELSE LET item == [nid |-> Len(sent) + 1, sess |-> 0, update |-> u]
            IN  /\ sent' = Append(sent, item)
                /\ Commit(sessionUpdate(Cur, c, item))
                /\ UNCHANGED <<docker_repo, gemini_proc, gemini_conn, event_queue, conn,
                               directory, user_request, session, process, faulted>>

\* ------------------------------------------------------------------ specifications

DockerRepos == {None, Some(""), Some("registry/org")}
Directories == {"", "app1"}
NoReply == [handler |-> "none", params |-> <<>>, result |-> <<>>, error |-> "",
            caught |-> ""]

InitClient ==
    /\ fs = [p \in Paths |-> NoFile]
    /\ fsLog = <<>>
    /\ reply = NoReply
    /\ calls = 0

\* CodingAgent.__init__, and no invocation yet.
InitAgent ==
    /\ gemini_proc = 0
    /\ gemini_conn = 0
    /\ event_queue = 0
    /\ conn = [c \in Conn |-> [state |-> "absent", owner |-> 0]]
    /\ qItems = [c \in Conn |-> <<>>]
    /\ qGetters = [c \in Conn |-> <<>>]
    /\ pc = [i \in Inv |-> "idle"]
    /\ directory = [i \in Inv |-> ""]
    /\ user_request = [i \in Inv |-> ""]
    /\ session = [i \in Inv |-> 0]
    /\ tasks = [i \in Inv |-> [prompt_task |-> "none", dockerfile_task |-> "none",
                               docs_task |-> "none"]]
    /\ getter = [i \in Inv |-> NoGetter]
    /\ mq = [i \in Inv |-> 0]
    /\ image_tag = [i \in Inv |-> None]
    /\ process = [i \in Inv |-> NoProcess]
    /\ out = [i \in Inv |-> <<>>]
    /\ sent = <<>>
    /\ consumed = [i \in Inv |-> <<>>]
    /\ promptLog = [i \in Inv |-> <<>>]
    /\ faulted = [i \in Inv |-> ""]

\* A fresh agent with a docker repo (src/run.py and agent.py line 372, with
\* docker_repo configured).
Init ==
    /\ docker_repo = Some("registry/org")
    /\ InitAgent
    /\ InitClient

Steps(i) ==
    \/ \E dirOk \in BOOLEAN : EnsureClient(i, dirOk)
    \/ SpawnDone(i)
    \/ SpawnFail(i)
    \/ \E dirOk \in BOOLEAN : InitializeDone(i, dirOk)
    \/ InitializeFail(i)
    \/ NewSessionDone(i)
    \/ NewSessionFail(i)
    \/ GetterRun(i)
    \/ Wait0Return(i)
    \/ S0Loop(i)
    \/ \E step \in {"s0", "df", "doc"} : DrainResume(i, step)
    \/ \E step \in {"df", "doc"} : PollResume(i, step)
    \/ \E step \in {"df", "doc"} : PollWoken(i, step)
    \/ \E step \in {"df", "doc"} : PollTimeout(i, step)
    \/ Fault(i)
    \/ \E step \in {"s0", "df", "doc"}, res \in {"ok", "err"} : PeerRespond(i, step, res)
    \/ BuildLaunchFail(i)
    \/ BuildReadLine(i)
    \/ \E rc \in ExitCodes : BuildExit(i, rc)

WorkflowOutputs == {<<>>, <<Line(<<"a">>)>>}

\* One invocation, its peer and its build; the peer sends notifications for
\* the session while the invocation runs.
Run(i) ==
    \/ \E dir \in Directories, req \in UserRequests : Start(i, dir, req)
    \/ Steps(i)
    \/ \E u \in WorkflowUpdates : pc[i] \notin Terminal /\ PeerNotify(i, u)
    \/ \E stdout \in WorkflowOutputs : BuildLaunch(i, stdout)

\* The first invocation of a fresh agent (src/run.py with one query).
Next == Run(Min(Inv))

Spec == Init /\ [][Next]_vars

\* Notifications of the peer in the runs that are kept going.
MaxNotifLive == 2

\* A step of invocation i by someone who is bound to take it: the event loop
\* runs a task that is ready or fires the 0.1 s timer of wait_for, the
\* consumer (runner.run_async, src/run.py line 81) asks for the next event,
\* the peer or the operating system answers what it was asked (spawn,
\* initialize, newSession, a prompt), the build prints a line, closes its
\* output or exits.  A notification and a fault are not among them.
Progress(i) ==
    \/ \E dirOk \in BOOLEAN : EnsureClient(i, dirOk)
    \/ SpawnDone(i)
    \/ SpawnFail(i)
    \/ \E dirOk \in BOOLEAN : InitializeDone(i, dirOk)
    \/ InitializeFail(i)
    \/ NewSessionDone(i)
    \/ NewSessionFail(i)
    \/ GetterRun(i)
    \/ Wait0Return(i)
    \/ S0Loop(i)
    \/ \E step \in {"s0", "df", "doc"} : DrainResume(i, step)
    \/ \E step \in {"df", "doc"} : PollResume(i, step)
    \/ \E step \in {"df", "doc"} : PollWoken(i, step)
    \/ \E step \in {"df", "doc"} : PollTimeout(i, step)
    \/ \E step \in {"s0", "df", "doc"}, res \in {"ok", "err"} : PeerRespond(i, step, res)
    \/ \E stdout \in WorkflowOutputs : BuildLaunch(i, stdout)
    \/ BuildLaunchFail(i)
    \/ BuildReadLine(i)
    \/ \E rc \in ExitCodes : BuildExit(i, rc)

\* The first invocation of a fresh agent: as Run, with fewer notifications.
NextLive ==
    \/ \E dir \in Directories, req \in UserRequests : Start(Min(Inv), dir, req)
    \/ Progress(Min(Inv))
    \/ Fault(Min(Inv))
    \/ \E u \in WorkflowUpdates :
           /\ pc[Min(Inv)] \notin Terminal
           /\ Len(sent) < MaxNotifLive
           /\ PeerNotify(Min(Inv), u)

\* While a step of Progress is possible, one is taken.
Fairness == WF_vars(Progress(Min(Inv)))

\* The first invocation of a fresh agent, kept going.
SpecLive == Init /\ [][NextLive]_vars /\ Fairness


\* Invocations of one agent that overlap (the hosting framework runs one
\* run_async per incoming message; nothing in the agent serialises them) or
\* follow one another, up to the answer to the user prompt.
NextSetup ==
    \E i \in Inv :
        \/ \E dir \in Directories, req \in UserRequests : Start(i, dir, req)
        \/ \E dirOk \in BOOLEAN : EnsureClient(i, dirOk)
        \/ SpawnDone(i)
        \/ SpawnFail(i)
        \/ \E dirOk \in BOOLEAN : InitializeDone(i, dirOk)
        \/ InitializeFail(i)
        \/ NewSessionDone(i)
        \/ NewSessionFail(i)
        \/ GetterRun(i)
        \/ \E res \in {"ok", "err"} : PeerRespond(i, "s0", res)

SpecSetup == Init /\ [][NextSetup]_vars


\* One invocation up to the Dockerfile prompt, the peer sending every
\* variant of session update while the user prompt is handled.
NextFormat ==
    \/ \E dir \in Directories, req \in UserRequests : Start(1, dir, req)
    \/ \E dirOk \in BOOLEAN : EnsureClient(1, dirOk)
    \/ SpawnDone(1)
    \/ \E dirOk \in BOOLEAN : InitializeDone(1, dirOk)
    \/ NewSessionDone(1)
    \/ GetterRun(1)
    \/ Wait0Return(1)
    \/ S0Loop(1)
    \/ DrainResume(1, "s0")
    \/ \E res \in {"ok", "err"} : PeerRespond(1, "s0", res)
    \/ \E u \in AllUpdates : tasks[1].dockerfile_task = "none" /\ PeerNotify(1, u)

SpecFormat == Init /\ [][NextFormat]_vars


\* The update the peer sends in the runs of several invocations.
Hello == Update("AgentMessageChunk", TRUE, "hello", "", "")

\* Invocation i starts when the one before it is over (src/run.py: the
\* queries are run one after the other) and the event loop has run the
\* tasks that were ready.
InOrder(i) ==
    /\ IF i = Min(Inv) THEN TRUE ELSE pc[i - 1] \in Terminal
    /\ \A j \in Inv : getter[j].state \notin {"new", "woken"}

\* Invocations of one agent, one after the other, without faults and
\* without a build; the peer notifies for a session once it exists, also
\* when its invocation is over.
NextSeq ==
    \E i \in Inv :
        \/ \E req \in UserRequests : InOrder(i) /\ Start(i, "", req)
        \/ EnsureClient(i, TRUE)
        \/ SpawnDone(i)
        \/ InitializeDone(i, TRUE)
        \/ NewSessionDone(i)
        \/ GetterRun(i)
        \/ Wait0Return(i)
        \/ S0Loop(i)
        \/ \E step \in {"s0", "df", "doc"} : DrainResume(i, step)
        \/ \E step \in {"df", "doc"} : PollResume(i, step)
        \/ \E step \in {"df", "doc"} : PollWoken(i, step)
        \/ \E step \in {"df", "doc"} : PollTimeout(i, step)
        \/ \E step \in {"s0", "df", "doc"} : PeerRespond(i, step, "ok")
        \/ PeerNotify(i, Hello)

SpecSeq == Init /\ [][NextSeq]_vars


\* The client of connection 1, once _ensure_gemini_client has made it and
\* newSession is on its way: the peer may call back from here on.
InitHandlers ==
    /\ docker_repo = None
    /\ gemini_proc = 1
    /\ gemini_conn = 1
    /\ event_queue = 1
    /\ conn = [c \in Conn |-> IF c = 1 THEN [state |-> "initialized", owner |-> 1]
                                       ELSE [state |-> "absent", owner |-> 0]]
    /\ qItems = [c \in Conn |-> <<>>]
    /\ qGetters = [c \in Conn |-> <<>>]
    /\ pc = [i \in Inv |-> IF i = 1 THEN "sessionStarting" ELSE "idle"]
    /\ directory = [i \in Inv |-> ""]
    /\ user_request = [i \in Inv |-> IF i = 1 THEN "add a health endpoint" ELSE ""]
    /\ session = [i \in Inv |-> IF i = 1 THEN 1 ELSE 0]
    /\ tasks = [i \in Inv |-> [prompt_task |-> "none", dockerfile_task |-> "none",
                               docs_task |-> "none"]]
    /\ getter = [i \in Inv |-> NoGetter]
    /\ mq = [i \in Inv |-> 0]
    /\ image_tag = [i \in Inv |-> None]
    /\ process = [i \in Inv |-> NoProcess]
    /\ out = [i \in Inv |-> <<>>]
    /\ sent = <<>>
    /\ consumed = [i \in Inv |-> <<>>]
    /\ promptLog = [i \in Inv |-> <<>>]
    /\ faulted = [i \in Inv |-> ""]
    /\ InitClient

Option(n, kind) == [optionId |-> "opt" \o ToString(n), kind |-> kind]
\* Permission requests: up to MaxOptions options, the k-th named opt<k>.
OptionLists ==
    { [k \in 1..Len(kinds) |-> Option(k, kinds[k])] : kinds \in SeqsUpTo(OptionKinds, MaxOptions) }

NextHandlers ==
    \/ \E options \in OptionLists : RequestPermissionCall(options)
    \/ \E path \in Paths, content \in Contents, fault \in {"none", "mkdir", "write"} :
           WriteTextFileCall(path, content, fault)
    \/ \E path \in Paths, fault \in {"none", "read"} : ReadTextFileCall(path, fault)
    \/ \E u \in WorkflowUpdates, fault \in BOOLEAN : SessionUpdateCall(1, u, fault)

SpecHandlers == InitHandlers /\ [][NextHandlers]_vars


\* One invocation on a fresh agent with every repo and directory, and builds
\* that print up to MaxLines lines; the peer sends no notification.
InitBuild ==
    /\ docker_repo \in DockerRepos
    /\ InitAgent
    /\ InitClient

NextBuild ==
    \/ \E dir \in Directories, req \in UserRequests : Start(1, dir, req)
    \/ \E dirOk \in BOOLEAN : EnsureClient(1, dirOk)
    \/ SpawnDone(1)
    \/ \E dirOk \in BOOLEAN : InitializeDone(1, dirOk)
    \/ NewSessionDone(1)
    \/ GetterRun(1)
    \/ Wait0Return(1)
    \/ \E step \in {"df", "doc"} : PollTimeout(1, step)
    \/ \E step \in {"s0", "df", "doc"}, res \in {"ok", "err"} : PeerRespond(1, step, res)
    \/ \E stdout \in BuildOutputs : BuildLaunch(1, stdout)
    \/ BuildLaunchFail(1)
    \/ BuildReadLine(1)
    \/ \E rc \in ExitCodes : BuildExit(1, rc)

SpecBuild == InitBuild /\ [][NextBuild]_vars


\* ------------------------------------------------------------------ properties

Nids(events) == [k \in 1..Len(events) |-> events[k].nid]
Increasing(ns) == \A a, b \in 1..Len(ns) : a < b => ns[a] < ns[b]
Count(ns, n) == Cardinality({k \in 1..Len(ns) : ns[k] = n})

\* The events of invocation i that format a notification.
UpdateEvents(i) == SelectSeq(out[i], LAMBDA e : e.nid > 0)
\* The "Error: ..." events of invocation i.
ErrorEvents(i) == SelectSeq(out[i], LAMBDA e : e.at = 347)
\* The "[Docker] ..." events of invocation i.
DockerEvents(i) == SelectSeq(out[i], LAMBDA e : e.nid = 0 /\ e.at # 347)

\* The peer has answered the prompt request (with a completion or an error).
Responded(t) == t \in {"ok", "err"}

\* C1: the Dockerfile prompt is not sent before the user prompt's request was
\* answered, nor the documentation prompt before the Dockerfile prompt's was;
\* the prompts go out in the fixed order user, Dockerfile, documentation.
C1_StepOrder ==
    \A i \in Inv :
        /\ \E n \in 0..3 :
               promptLog[i] = SubSeq(<<user_request[i], DOCKERFILE_PROMPT,
                                       DOCUMENTATION_PROMPT>>, 1, n)
        /\ Len(promptLog[i]) >= 2 => Responded(tasks[i].prompt_task)
        /\ Len(promptLog[i]) >= 3 => Responded(tasks[i].dockerfile_task)
        /\ tasks[i].dockerfile_task # "none" => Responded(tasks[i].prompt_task)
        /\ tasks[i].docs_task # "none" => Responded(tasks[i].dockerfile_task)

\* The documentation prompt is out, after notifications were yielded, and
\* not yet answered.
C1_Witness ==
    \E i \in Inv :
        /\ tasks[i].docs_task = "pending"
        /\ Len(promptLog[i]) = 3
        /\ Len(UpdateEvents(i)) >= 2

\* A notification is not lost while it is in a queue, or in the result of a
\* getter task that the generator still waits for in asyncio.wait.
InQueue(n) == \E c \in Conn : \E k \in 1..Len(qItems[c]) : qItems[c][k].nid = n
HeldForSequencer(n) ==
    \E i \in Inv : pc[i] = "s0Race" /\ getter[i].state = "done" /\ getter[i].result.nid = n

\* C2: every notification put on the queue is consumed exactly once by the
\* workflow (handed to _format_update), and each one that formats to a
\* non-empty text is exactly one event of an output stream (stated for the
\* runs in which no fault occurs).
C2_NoNotificationMissed ==
    (\A i \in Inv : faulted[i] = "") =>
    \A n \in 1..Len(sent) :
        LET times == [i \in Inv |-> Count(consumed[i], n)]
            events == [i \in Inv |-> Count(Nids(out[i]), n)]
        IN  /\ \A i, j \in Inv : times[i] <= 1 /\ (i # j => times[i] + times[j] <= 1)
            /\ InQueue(n) \/ HeldForSequencer(n) \/ \E i \in Inv : times[i] = 1
            /\ \A i \in Inv :
                   times[i] = 1 =>
                       events[i] = (IF Truthy(format_update(sent[n].update)) THEN 1 ELSE 0)

\* C3: the events that format notifications appear in an output stream in
\* the order the peer sent the notifications, each with the text its
\* notification formats to, whichever loop yields them.
C3_OrderPreserved ==
    \A i \in Inv :
        /\ Increasing(consumed[i])
        /\ Increasing(Nids(UpdateEvents(i)))
        /\ \A k \in 1..Len(UpdateEvents(i)) :
               LET e == UpdateEvents(i)[k]
               IN  Some(e.text) = format_update(sent[e.nid].update)

\* One stream holds three notifications' events: one from the asyncio.wait
\* loop of the user prompt, one from a polling loop, one from a drain loop.
C3_Witness ==
    \E i \in Inv :
        LET at == {UpdateEvents(i)[k].at : k \in 1..Len(UpdateEvents(i))}
        IN  /\ Len(UpdateEvents(i)) = 3
            /\ 341 \in at
            /\ at \cap {239, 273} # {}
            /\ at \cap {207, 229, 263} # {}

\* C4: a fault anywhere in the workflow, connection setup and newSession
\* included, ends the invocation in ErrorTerminal with exactly one error event.
C4_FaultGivesErrorEvent ==
    \A i \in Inv :
        faulted[i] # "" => pc[i] = "ErrorTerminal" /\ Len(ErrorEvents(i)) = 1


\* ---- the callback handlers (SpecHandlers)

\* C5: requestPermission answers with the first option, in list order, whose
\* kind is allow_once or allow_always, whatever reject options come before
\* it, and with cancelled when no option has an allow kind.  (An option whose
\* kind cannot be read before the first allow option is an internal fault:
\* cancelled.)
C5_FirstAllowOption ==
    reply.handler = "requestPermission" =>
        LET options == reply.params.options
            allow == {k \in 1..Len(options) : options[k].kind \in {"allow_once", "allow_always"}}
            bad == {k \in 1..Len(options) : options[k].kind = BadKind}
        IN  /\ reply.error = ""
            /\ IF allow # {} /\ \A k \in bad : k > Min(allow)
               THEN reply.result = [outcome |-> "selected",
                                    optionId |-> options[Min(allow)].optionId]
               ELSE reply.result = [outcome |-> "cancelled", optionId |-> ""]

\* A reject option, then allow_always, then allow_once: the second is chosen.
C5_Witness ==
    /\ reply.handler = "requestPermission"
    /\ Len(reply.params.options) = 3
    /\ reply.params.options[1].kind = "reject_once"
    /\ reply.params.options[2].kind = "allow_always"
    /\ reply.params.options[3].kind = "allow_once"
    /\ reply.result = [outcome |-> "selected", optionId |-> "opt2"]

\* C6: a relative path makes readTextFile and writeTextFile fail with an
\* invalid-path error reported to the peer, before any file-system access.
C6_RelativePathFails ==
    (reply.handler \in {"readTextFile", "writeTextFile"}
        /\ ~is_absolute(reply.params.path))
    => (reply.error = "invalid_params" /\ fsLog = <<>>)

\* C7: readTextFile of an absolute path with no file yields a file-not-found
\* (invalid params) error to the peer, not a content result.
C7_MissingFileFails ==
    (reply.handler = "readTextFile"
        /\ is_absolute(reply.params.path)
        /\ fs[reply.params.path] = NoFile)
    => reply.error = "invalid_params"

HandlerDefault(handler) ==
    IF handler = "requestPermission" THEN [outcome |-> "cancelled", optionId |-> ""]
    ELSE IF handler = "readTextFile" THEN <<>>
    ELSE IF handler = "writeTextFile" THEN "WriteTextFileResponse"
    ELSE "None"

BuildPcs == {"buildLaunch", "buildRead", "buildWait"}
RepoSet == docker_repo # None /\ docker_repo[1] # ""

\* C9: the tag is docker_repo/directory when both are non-empty, directory
\* when only it is, and none when directory is empty; with no tag no build
\* subprocess is started and no [Docker] event is yielded.
C9_ImageTag ==
    \A i \in Inv :
        /\ (pc[i] \in BuildPcs \cup {"Done"} /\ directory[i] # "") =>
               image_tag[i] = IF RepoSet THEN <<docker_repo[1] \o "/" \o directory[i]>>
                                         ELSE <<directory[i]>>
        /\ (pc[i] \in BuildPcs \cup {"Done"} /\ directory[i] = "app1"
               /\ docker_repo = <<"registry/org">>) => image_tag[i] = <<"registry/org/app1">>
        /\ directory[i] = "" =>
               /\ image_tag[i] = None
               /\ pc[i] \notin BuildPcs
               /\ process[i].state = "none"
               /\ DockerEvents(i) = <<>>
        /\ pc[i] \in BuildPcs => image_tag[i] # None /\ image_tag[i][1] # ""

\* With a repo and an empty directory the run is over after the three
\* answered prompts, with no build.
C9_Witness ==
    \E i \in Inv :
        /\ pc[i] = "Done"
        /\ directory[i] = ""
        /\ docker_repo = <<"registry/org">>
        /\ tasks[i].docs_task = "ok"
        /\ Len(promptLog[i]) = 3

\* A line without its trailing whitespace, by what is left rather than by
\* how it is removed.
Stripped(line) ==
    LET k == CHOOSE k \in 0..Len(line) :
                 /\ k = 0 \/ line[k] \notin Whitespace
                 /\ \A j \in (k + 1)..Len(line) : line[j] \in Whitespace
    IN  SubSeq(line, 1, k)

Texts(events) == [k \in 1..Len(events) |-> events[k].text]
LineEvents(lines) == [k \in 1..Len(lines) |-> "[Docker] " \o Str(Stripped(lines[k]))]

\* The last event of a finished build names its outcome, after the events
\* of the lines in `lines`.
BuildReport(i, lines) ==
    LET d == Texts(DockerEvents(i))
        p == process[i]
        tag == image_tag[i][1]
    IN  /\ Len(d) >= 2
        /\ d[1] = "[Docker] Building image: " \o tag
        /\ SubSeq(d, 2, Len(d) - 1) = LineEvents(lines)
        /\ p.returncode = <<0>> => d[Len(d)] = "[Docker] Successfully built image: " \o tag
        /\ \A rc \in ExitCodes \ {0} :
               p.returncode = <<rc>> =>
                   d[Len(d)] = "[Docker] Build failed with exit code: " \o ToString(rc)
        /\ p.state = "none" =>
               d = <<d[1], "[Docker] Error building image: launch failed">>
        /\ p.returncode # None => p.stdout = <<>> /\ p.state = "exited"
        /\ ErrorEvents(i) = <<>>
        /\ faulted[i] = ""

BuildEntered(i) == Truthy(image_tag[i])

\* C11: once the build step is entered the invocation stays in the build or
\* in Done, never ErrorTerminal, yields no "Error: ..." event and raises
\* nothing, whether the build exits 0, exits nonzero or cannot be launched;
\* and it reaches Done.
C11_BuildNotFatal ==
    /\ [](\A i \in Inv :
             BuildEntered(i) =>
                 /\ pc[i] \in BuildPcs \cup {"Done"}
                 /\ ErrorEvents(i) = <<>>
                 /\ faulted[i] = "")
    /\ \A i \in Inv : (pc[i] \in BuildPcs) ~> (pc[i] = "Done")

\* A build that could not be launched, reported in one [Docker] line, and
\* the invocation in Done.
C11_Witness ==
    \E i \in Inv :
        /\ pc[i] = "Done"
        /\ BuildEntered(i)
        /\ process[i].state = "none"
        /\ Len(DockerEvents(i)) = 2
        /\ DockerEvents(i)[2].at = 328

\* ---- cancellation (Spec)

TaskNames == {"prompt_task", "dockerfile_task", "docs_task"}

\* C12: when the invocation has left through a fault (ErrorTerminal), the
\* prompt request that was in flight is cancelled, whichever step it belongs
\* to: no prompt task of the invocation is still pending.
C12_InFlightCancelled ==
    \A i \in Inv :
        pc[i] = "ErrorTerminal" => \A t \in TaskNames : tasks[i][t] # "pending"

\* ---- connection setup (SpecSetup)

\* C13: over the invocations of one agent the process is spawned, and
\* initialize called, at most once, and a newSession request (hence a prompt
\* request) only goes out on a connection whose initialize has succeeded.
C13_SpawnInitializeOnce ==
    /\ NumConns <= 1
    /\ \A i \in Inv :
           (session[i] # 0 \/ tasks[i].prompt_task # "none") =>
               conn[session[i]].state = "initialized"

\* ---- the build after the prompts (Spec)

\* C14: a build (the tag computed, the subprocess launched or about to be)
\* only exists when the three prompts were sent and each request was
\* answered, and the step that enters the build leaves the queue empty.
C14_BuildAfterPrompts ==
    /\ [](\A i \in Inv :
             (pc[i] \in BuildPcs \/ process[i].state # "none" \/ BuildEntered(i)) =>
                 /\ Len(promptLog[i]) = 3
                 /\ \A t \in TaskNames : tasks[i][t] \in DoneStates)
    /\ [][\A i \in Inv :
              (pc[i] \notin BuildPcs /\ pc'[i] \in BuildPcs) =>
                  /\ pc[i] \in {"docWait", "docWoken", "docLoop", "docDrain"}
                  /\ qItems'[event_queue] = <<>>]_vars

\* A build subprocess runs, after a notification was yielded by the drain
\* loop of the documentation step.
C14_Witness ==
    \E i \in Inv :
        /\ pc[i] = "buildRead"
        /\ process[i].state = "running"
        /\ \E k \in 1..Len(out[i]) : out[i][k].at = 263

\* ---- _format_update (SpecFormat)

\* The text the specification gives for an update, or None.
ExpectedText(u) ==
    CASE u.cls = "AgentMessageChunk" /\ u.isText -> <<u.text>>
      [] u.cls = "AgentThoughtChunk" /\ u.isText -> <<"[Thought] " \o u.text>>
      [] u.cls = "ToolCallStart" -> <<"[Tool] " \o u.title>>
      [] u.cls = "ToolCallProgress" /\ u.status = "completed" -> <<"[Tool] Completed">>
      [] OTHER -> <<>>

\* C15: every notification the workflow has consumed was formatted as the
\* table says (text verbatim, "[Thought] " + text, "[Tool] " + title,
\* "[Tool] Completed" for status completed only, nothing otherwise), and one
\* that formats to nothing has no event in any output stream.
C15_FormatUpdate ==
    \A i \in Inv : \A n \in 1..Len(sent) :
        LET u == sent[n].update
            ev == SelectSeq(out[i], LAMBDA e : e.nid = n)
        IN  /\ ExpectedText(u) = <<>> => ev = <<>>
            /\ \A k \in 1..Len(ev) : <<ev[k].text>> = ExpectedText(u)
            /\ Count(consumed[i], n) = 1 =>
                   Len(ev) = (IF ExpectedText(u) \notin {<<>>, <<"">>} THEN 1 ELSE 0)

\* A thought and a completed tool call were yielded and a tool call in
\* progress was consumed without an event.
C15_Witness ==
    /\ Len(consumed[1]) = 3
    /\ Texts(out[1]) = <<"[Thought] plan", "[Tool] Completed">>
    /\ \E n \in 1..Len(sent) :
           sent[n].update.cls = "ToolCallProgress" /\ sent[n].update.status = "in_progress"

\* ---- the file handlers' round trip (SpecHandlers)

\* C16: a read that succeeds returns the text of the last write to its path
\* that succeeded, exactly (fs holds that text: a write replaces the whole
\* content of the file).
C16_WriteReadRoundTrip ==
    (/\ reply.handler = "readTextFile"
     /\ reply.caught = ""
     /\ is_absolute(reply.params.path))
    => reply.result = fs[reply.params.path]

\* ---- forward progress (SpecLive)

\* C17: an invocation that was started, is kept going and whose requests
\* are answered eventually reaches Done or ErrorTerminal.
C17_ForwardProgress ==
    \A i \in Inv : (pc[i] # "idle") ~> (pc[i] \in {"Done", "ErrorTerminal"})

\* What holds instead: such an invocation eventually ends, in Done, in
\* ErrorTerminal or by raising out of the generator.
EventuallyEnds ==
    \A i \in Inv : (pc[i] # "idle") ~> (pc[i] \in Terminal)

\* ---- a prompt answered with an error (Spec)

Failed(i) == \E t \in TaskNames : tasks[i][t] = "err"

\* C18: when a prompt request was answered with an error, no later prompt
\* is sent and no build is started, and the invocation ends in ErrorTerminal
\* with exactly one error event.
C18_FailedPromptEndsRun ==
    \A i \in Inv :
        /\ tasks[i].prompt_task = "err" =>
               tasks[i].dockerfile_task = "none" /\ tasks[i].docs_task = "none"
        /\ tasks[i].dockerfile_task = "err" => tasks[i].docs_task = "none"
        /\ Failed(i) => ~BuildEntered(i) /\ pc[i] \notin BuildPcs
        /\ (Failed(i) /\ pc[i] \in Terminal) =>
               pc[i] = "ErrorTerminal" /\ Len(ErrorEvents(i)) = 1

\* ---- drain before advancing (Spec)

\* The step issues a follow-up prompt of invocation i, or computes its tag.
Advances(i) ==
    \/ Len(promptLog[i]) >= 1 /\ Len(promptLog'[i]) > Len(promptLog[i])
    \/ /\ pc[i] \in {"docWait", "docWoken", "docLoop", "docDrain"}
       /\ pc'[i] \in BuildPcs \cup {"Done"}

\* C19: a step that issues the Dockerfile or the documentation prompt, or
\* computes the image tag, leaves the queue empty, and what was buffered in
\* the queue before it has been consumed by the workflow.
C19_DrainBeforeAdvance ==
    [][\A i \in Inv :
          Advances(i) =>
              /\ qItems'[event_queue] = <<>>
              /\ \A k \in 1..Len(qItems[event_queue]) :
                     Count(consumed'[i], qItems[event_queue][k].nid) = 1]_vars

\* The Dockerfile prompt was issued after the drain loop of the user prompt
\* had yielded an event and consumed a notification without one.
C19_Witness ==
    \E i \in Inv :
        /\ Len(promptLog[i]) = 2
        /\ \E k \in 1..Len(out[i]) : out[i][k].at = 207
        /\ \E n \in 1..Len(sent) :
               /\ Count(consumed[i], n) = 1
               /\ ~Truthy(format_update(sent[n].update))
        /\ qItems[event_queue] = <<>>

\* ---- invocations of one agent (SpecSeq)

\* C20: an event of an invocation's stream formats a notification the peer
\* sent for that invocation's session, and a getter task of an invocation
\* only ever takes a notification of its own session.
C20_SessionIsolation ==
    \A i \in Inv :
        /\ \A k \in 1..Len(UpdateEvents(i)) : sent[UpdateEvents(i)[k].nid].sess = i
        /\ \A k \in 1..Len(consumed[i]) : sent[consumed[i][k]].sess = i
        /\ getter[i].state = "done" => getter[i].result.sess = i

====
